---- MODULE Spec2Model ----
(***************************************************************************)
(* Model of agenteval's task executors: BaseExecutor (per-task algorithm,  *)
(* timeout handling, aggregation), SequentialExecutor and                  *)
(* ParallelExecutor (semaphore gate, gather, batched variant).             *)
(*                                                                         *)
(* Optional[T] values are modelled as sequences: <<>> is None, <<v>> is v. *)
(***************************************************************************)
EXTENDS Integers, Sequences, FiniteSets, TLC

\* ---------------------------------------------------------------- bounds
MaxTasks == 3
MaxConcurrency == 2
MaxBatchSize == 2

\* settings.task_timeout, the default of config["timeout"]
task_timeout == 300

\* (end_time - start_time).total_seconds() as observed by a task body
ElapsedTimes == {0, 1}

None == <<>>
Some(v) == <<v>>

\* ---------------------------------------------------------------- inputs
\* What happens when the per-task algorithm runs for a task:
\*   ok       adapter.execute returns and validate_success returns True
\*   invalid  adapter.execute returns and validate_success returns False
\*   valraise adapter.execute returns and validate_success raises
\*   raise    adapter.execute raises
\*   hang     adapter.execute does not return within context.timeout
\*   badmsg   _create_initial_messages raises (system_message is not a str)
\*   badctx   _create_context raises
TaskKinds == {"ok", "invalid", "valraise", "raise", "hang", "badmsg", "badctx"}

\* Two more behaviours, in which something other than a result leaves the
\* per-task wrapper execute_with_progress:
\*   cancel   adapter.execute raises asyncio.CancelledError (a BaseException,
\*            which no "except Exception" clause catches)
\*   escape   _create_context raises and the wrapper's except clause raises
\*            again while it reports the error (an Exception leaves the wrapper)
EscapeKinds == {"cancel", "escape"}

Modes == {"sequential", "parallel", "batched"}

\* task_id of the i-th task: metadata.name, the "unique name" of the task
TaskIdOf(i) == i

TaskLists ==
    UNION { { [i \in 1..n |-> [task_id |-> TaskIdOf(i), kind |-> k[i]]] :
                k \in [1..n -> TaskKinds] }
            : n \in 0..MaxTasks }

\* str(e) of the exception a task kind raises
ExcMessage(kind) ==
    CASE kind = "raise"    -> "adapter error"
      [] kind = "valraise" -> "validation error"
      [] kind = "badmsg"   -> "message error"
      [] kind = "badctx"   -> "context error"
      [] kind = "escape"   -> "handler error"
      [] OTHER             -> "no error"

\* f"Task exceeded timeout of {context.timeout} seconds"
TimeoutMessage(timeout) == "Task exceeded timeout of " \o ToString(timeout) \o " seconds"

\* ---------------------------------------------------------------- token usage
\* TokenUsage(): every base field defaults to 0, the cache fields to None
TokenUsage0 ==
    [ input_tokens |-> 0, output_tokens |-> 0, total_tokens |-> 0,
      cache_read_tokens |-> None, cache_write_tokens |-> None ]

\* (x or 0) for an Optional[int]
OrZero(x) == IF x = None THEN 0 ELSE x[1]

\* An addition that keeps the cache counters of the left operand only
TokenUsageAdd_LeftCache(a, b) ==
    [ input_tokens       |-> a.input_tokens + b.input_tokens,
      output_tokens      |-> a.output_tokens + b.output_tokens,
      total_tokens       |-> a.total_tokens + b.total_tokens,
      cache_read_tokens  |-> Some(OrZero(a.cache_read_tokens)),
      cache_write_tokens |-> Some(OrZero(a.cache_write_tokens)) ]

\* TokenUsage.__add__
TokenUsageAdd(a, b) ==
    [ input_tokens       |-> a.input_tokens + b.input_tokens,
      output_tokens      |-> a.output_tokens + b.output_tokens,
      total_tokens       |-> a.total_tokens + b.total_tokens,
      cache_read_tokens  |-> Some(OrZero(a.cache_read_tokens) + OrZero(b.cache_read_tokens)),
      cache_write_tokens |-> Some(OrZero(a.cache_write_tokens) + OrZero(b.cache_write_tokens)) ]

\* ---------------------------------------------------------------- float
\* Costs are Python floats. A float is kept as the number of cost units it
\* stands for, with a significand of MantissaBits bits (53 in CPython, scaled
\* down here): every integer up to 2^MantissaBits is a float, beyond it only
\* the multiples of the unit in the last place are.
MantissaBits == 4

RECURSIVE Pow2(_)
Pow2(n) == IF n = 0 THEN 1 ELSE 2 * Pow2(n - 1)

\* The unit in the last place at magnitude n
RECURSIVE UlpFrom(_, _)
UlpFrom(n, u) == IF n < Pow2(MantissaBits) * u THEN u ELSE UlpFrom(n, 2 * u)
Ulp(n) == UlpFrom(n, 1)

\* Round to nearest float, ties to the even significand
RoundFloat(n) ==
    LET u == Ulp(n)
        q == n \div u
        r == n % u
    IN IF 2 * r < u THEN q * u
       ELSE IF 2 * r > u THEN (q + 1) * u
       ELSE IF q % 2 = 0 THEN q * u ELSE (q + 1) * u

\* x + y on floats
FloatAdd(x, y) == RoundFloat(x + y)

\* The usage and cost one adapter.execute call that returns reports through
\* _update_usage / _update_cost
AdapterCall ==
    [ usage |-> [ input_tokens |-> 1, output_tokens |-> 1, total_tokens |-> 2,
                  cache_read_tokens |-> None, cache_write_tokens |-> None ],
      cost  |-> 1 ]

\* BaseAdapter.__init__ / reset_usage
AdapterInit == [_token_usage |-> TokenUsage0, _total_cost |-> 0]

\* BaseAdapter._update_usage and _update_cost, as called by execute before it returns
AdapterAfterCall(ad) ==
    [ _token_usage |-> TokenUsageAdd(ad._token_usage, AdapterCall.usage),
      _total_cost  |-> FloatAdd(ad._total_cost, AdapterCall.cost) ]

\* ---------------------------------------------------------------- results
\* A success test that looks at the status only
is_successful_StatusOnly(r) == r.status = "completed"

\* ExecutionStatus
ExecutionStatus == {"pending", "running", "completed", "failed", "timeout", "cancelled"}

\* ExecutionResult.is_successful
is_successful(r) == r.status = "completed" /\ r.success

\* A completed result that leaves validation_passed at its default
CompletedResult_DefaultValidation(task, success, elapsed, usage, cost) ==
    [ task_id           |-> task.task_id,
      status            |-> "completed",
      success           |-> success,
      execution_time    |-> elapsed,
      output            |-> Some("content"),
      error             |-> None,
      trace             |-> Some([task_id |-> task.task_id, turns |-> 1]),
      turns_count       |-> 1,
      token_usage       |-> Some(usage),
      cost              |-> Some(cost),
      validation_passed |-> FALSE ]

\* The ExecutionResult built on the success path of _execute_task_internal
CompletedResult(task, success, elapsed, usage, cost) ==
    [ task_id           |-> task.task_id,
      status            |-> "completed",
      success           |-> success,
      execution_time    |-> elapsed,
      output            |-> Some("content"),
      error             |-> None,
      trace             |-> Some([task_id |-> task.task_id, turns |-> 1]),
      turns_count       |-> 1,
      token_usage       |-> Some(usage),
      cost              |-> Some(cost),
      validation_passed |-> success ]

\* The ExecutionResult built by an except-Exception handler
FailedResult(task, elapsed, message) ==
    [ task_id           |-> task.task_id,
      status            |-> "failed",
      success           |-> FALSE,
      execution_time    |-> elapsed,
      output            |-> None,
      error             |-> Some(message),
      trace             |-> None,
      turns_count       |-> 0,
      token_usage       |-> None,
      cost              |-> None,
      validation_passed |-> FALSE ]

\* A timeout result that reports no duration, as the other handlers' results do
_create_timeout_result_ZeroTime(task, timeout) ==
    [ task_id           |-> task.task_id,
      status            |-> "timeout",
      success           |-> FALSE,
      execution_time    |-> 0,
      output            |-> None,
      error             |-> Some(TimeoutMessage(timeout)),
      trace             |-> None,
      turns_count       |-> 0,
      token_usage       |-> None,
      cost              |-> None,
      validation_passed |-> FALSE ]

\* A timeout reported as a cancellation
_create_timeout_result_Cancelled(task, timeout) ==
    [ task_id           |-> task.task_id,
      status            |-> "cancelled",
      success           |-> FALSE,
      execution_time    |-> timeout,
      output            |-> None,
      error             |-> Some(TimeoutMessage(timeout)),
      trace             |-> None,
      turns_count       |-> 0,
      token_usage       |-> None,
      cost              |-> None,
      validation_passed |-> FALSE ]

\* BaseExecutor._create_timeout_result
_create_timeout_result(task, timeout) ==
    [ task_id           |-> task.task_id,
      status            |-> "timeout",
      success           |-> FALSE,
      execution_time    |-> timeout,
      output            |-> None,
      error             |-> Some(TimeoutMessage(timeout)),
      trace             |-> None,
      turns_count       |-> 0,
      token_usage       |-> None,
      cost              |-> None,
      validation_passed |-> FALSE ]

\* ---------------------------------------------------------------- aggregation
RECURSIVE CountSuccessful(_)
CountSuccessful(results) ==
    IF results = <<>> THEN 0
    ELSE (IF is_successful(Head(results)) THEN 1 ELSE 0) + CountSuccessful(Tail(results))

RECURSIVE SumUsage(_, _)
SumUsage(total, results) ==
    IF results = <<>> THEN total
    ELSE SumUsage(IF Head(results).token_usage # None
                     THEN TokenUsageAdd(total, Head(results).token_usage[1])
                     ELSE total,
                  Tail(results))

\* sum(r.cost or 0.0 for r in results): float additions from left to right
RECURSIVE SumCostFrom(_, _)
SumCostFrom(total, results) ==
    IF results = <<>> THEN total
    ELSE SumCostFrom(FloatAdd(total, OrZero(Head(results).cost)), Tail(results))

\* A sum that ends at the first result without a cost
RECURSIVE SumCostUntilNone(_, _)
SumCostUntilNone(total, results) ==
    IF results = <<>> \/ Head(results).cost = None THEN total
    ELSE SumCostUntilNone(FloatAdd(total, Head(results).cost[1]), Tail(results))

SumCost_UntilNone(results) == SumCostUntilNone(0, results)

SumCost(results) == SumCostFrom(0, results)

RECURSIVE SumTime(_)
SumTime(results) ==
    IF results = <<>> THEN 0
    ELSE Head(results).execution_time + SumTime(Tail(results))

\* A float quotient num / den, kept as the pair; 0.0 is [num |-> 0, den |-> 1]
Ratio(num, den) == [num |-> num, den |-> den]
Zero == Ratio(0, 1)

RECURSIVE CountStatus(_, _)
CountStatus(results, st) ==
    IF results = <<>> THEN 0
    ELSE (IF Head(results).status = st THEN 1 ELSE 0) + CountStatus(Tail(results), st)

\* An aggregator that counts as failed only the results with status failed
_aggregate_results_StatusFailed(results) ==
    [ task_results           |-> results,
      total_tasks            |-> Len(results),
      successful_tasks       |-> CountSuccessful(results),
      failed_tasks           |-> CountStatus(results, "failed"),
      total_token_usage      |-> SumUsage(TokenUsage0, results),
      total_cost             |-> SumCost(results),
      average_execution_time |-> IF results # <<>>
                                   THEN Ratio(SumTime(results), Len(results))
                                   ELSE Zero ]

\* An aggregator that divides by len(results) whatever the length (a zero
\* denominator stands for the ZeroDivisionError the division raises)
_aggregate_results_Unguarded(results) ==
    [ task_results           |-> results,
      total_tasks            |-> Len(results),
      successful_tasks       |-> CountSuccessful(results),
      failed_tasks           |-> Len(results) - CountSuccessful(results),
      total_token_usage      |-> SumUsage(TokenUsage0, results),
      total_cost             |-> SumCost(results),
      average_execution_time |-> Ratio(SumTime(results), Len(results)) ]

\* BaseExecutor._aggregate_results
_aggregate_results(results) ==
    [ task_results           |-> results,
      total_tasks            |-> Len(results),
      successful_tasks       |-> CountSuccessful(results),
      failed_tasks           |-> Len(results) - CountSuccessful(results),
      total_token_usage      |-> SumUsage(TokenUsage0, results),
      total_cost             |-> SumCost(results),
      average_execution_time |-> IF results # <<>>
                                   THEN Ratio(SumTime(results), Len(results))
                                   ELSE Zero ]

\* BenchmarkResult.success_rate
success_rate(b) ==
    IF b.total_tasks = 0 THEN Zero ELSE Ratio(b.successful_tasks, b.total_tasks)

\* BenchmarkResult.get_failed_tasks
get_failed_tasks(b) == SelectSeq(b.task_results, LAMBDA r : ~is_successful(r))

\* BenchmarkResult.get_successful_tasks
get_successful_tasks(b) == SelectSeq(b.task_results, LAMBDA r : is_successful(r))

\* ---------------------------------------------------------------- per-task algorithm
\* Does adapter.execute return a response for a task of this kind?
AdapterReturns(kind) == kind \in {"ok", "invalid", "valraise"}

\* Is the task's adapter call awaited at all (steps 1-2 did not raise)?
ReachesAdapter(kind) == kind \notin {"badctx", "badmsg", "escape"}

\* The adapter after the task's call has ended
AdapterAfter(task, ad) == IF AdapterReturns(task.kind) THEN AdapterAfterCall(ad) ELSE ad

\* A task body whose except clause swallows the adapter's exception and
\* reports the task as completed without success
_execute_task_internal_Swallow(task, elapsed, ad) ==
    CASE task.kind = "ok" ->
           CompletedResult(task, TRUE, elapsed, ad._token_usage, ad._total_cost)
      [] task.kind \in {"invalid", "raise"} ->
           CompletedResult(task, FALSE, elapsed, ad._token_usage, ad._total_cost)
      [] OTHER ->
           FailedResult(task, elapsed, ExcMessage(task.kind))

\* BaseExecutor._execute_task_internal from the adapter call on: ad is the
\* adapter after the call, elapsed the measured execution time
_execute_task_internal(task, elapsed, ad) ==
    CASE task.kind = "ok" ->
           CompletedResult(task, TRUE, elapsed, ad._token_usage, ad._total_cost)
      [] task.kind = "invalid" ->
           CompletedResult(task, FALSE, elapsed, ad._token_usage, ad._total_cost)
      [] OTHER ->
           FailedResult(task, elapsed, ExcMessage(task.kind))

\* BaseExecutor._execute_with_timeout, for a task whose adapter call is awaited
_execute_with_timeout(task, elapsed, ad, timeout) ==
    IF task.kind = "hang"
    THEN _create_timeout_result(task, timeout)
    ELSE _execute_task_internal(task, elapsed, ad)

\* An exception object as asyncio.gather(return_exceptions=True) returns it
ExceptionObject(cls, message) == [cls |-> cls, message |-> message]

\* What the coroutine of a task hands to gather when its adapter call has
\* ended: the result of _execute_with_timeout, or the CancelledError that
\* passed every except clause on its way out
CoroutineOutcome(task, elapsed, ad, timeout) ==
    IF task.kind = "cancel"
    THEN ExceptionObject("CancelledError", "")
    ELSE _execute_with_timeout(task, elapsed, ad, timeout)

\* What the coroutine hands to gather when _create_context raised: the failed
\* result built by the except clause, or the exception that clause raised
ContextFailureOutcome(task) ==
    IF task.kind = "escape"
    THEN ExceptionObject("Exception", ExcMessage("escape"))
    ELSE FailedResult(task, 0, ExcMessage("badctx"))

\* ---------------------------------------------------------------- state
VARIABLES
    tasks,            \* the task list passed to execute_benchmark
    mode,             \* which executor entry point runs
    stop_on_failure,  \* kwargs["stop_on_failure"] (sequential)
    max_concurrency,  \* self.max_concurrency (parallel)
    batch_size,       \* batch_size (batched)
    phase,            \* "idle", "launch", "loop", "gather", "returned", "raised"
    semaphore,        \* free slots of self.semaphore
    pc,               \* per task: "idle", "created", "waiting", "running", "done"
    gathered,         \* per task: what its coroutine returned to gather
    escaped,          \* per task: the exception execute_task raised, if any
    lo,               \* sequential: loop index; batched: first index of the batch
    hi,               \* last index of the batch being gathered
    stopped,          \* sequential: the loop was left by break
    results,          \* sequential: results; batched: all_results
    adapter,          \* the shared adapter's cumulative counters
    benchmark_result, \* the BenchmarkResult returned, None before
    self_traces,      \* BaseExecutor.traces: the traces of completed tasks
    self_results,     \* BaseExecutor.results: the results of completed tasks
    args,             \* the arguments of a call of a function checked on its own
    ret,              \* what that call returned, None before
    _adapters,        \* AdapterRegistry._adapters: per name the class, or None
    _metadata         \* AdapterRegistry._metadata: per name the metadata, or None

executor_vars == << tasks, mode, stop_on_failure, max_concurrency, batch_size,
                    phase, semaphore, pc, gathered, escaped, lo, hi, stopped,
                    results, adapter, benchmark_result, self_traces, self_results >>

registry_vars == << _adapters, _metadata >>

\* The lists an executor accumulates over its lifetime
kept == << self_traces, self_results >>

vars == << executor_vars, args, ret, registry_vars >>

\* What no step of an executor changes
config == << tasks, mode, stop_on_failure, max_concurrency, batch_size, args, ret,
            registry_vars >>

\* The names adapters are registered under
AdapterNames == {"anthropic", "openai"}

\* AdapterRegistry's class attributes as the class body sets them: two empty dicts
NoAdapters ==
    /\ _adapters = [name \in AdapterNames |-> None]
    /\ _metadata = [name \in AdapterNames |-> None]

N == Len(tasks)
Min(a, b) == IF a < b THEN a ELSE b

Init ==
    /\ tasks \in TaskLists
    /\ mode \in Modes
    /\ stop_on_failure \in (IF mode = "sequential" THEN BOOLEAN ELSE {FALSE})
    /\ max_concurrency \in (IF mode = "sequential" THEN {1} ELSE 1..MaxConcurrency)
    /\ batch_size \in (IF mode = "batched" THEN 1..MaxBatchSize ELSE {1})
    /\ phase = IF mode = "parallel" THEN "launch" ELSE "loop"
    /\ semaphore = max_concurrency
    /\ pc = [i \in 1..Len(tasks) |-> "idle"]
    /\ gathered = [i \in 1..Len(tasks) |-> None]
    /\ escaped = [i \in 1..Len(tasks) |-> None]
    /\ lo = 1
    /\ hi = 0
    /\ stopped = FALSE
    /\ results = <<>>
    /\ adapter = AdapterInit
    /\ benchmark_result = None
    /\ self_traces = <<>>
    /\ self_results = <<>>
    /\ args = None
    /\ ret = None
    /\ NoAdapters

\* No executor runs: the state beside a call of a function checked on its own
NoRun ==
    /\ tasks = <<>>
    /\ mode = "sequential"
    /\ stop_on_failure = FALSE
    /\ max_concurrency = 1
    /\ batch_size = 1
    /\ phase = "idle"
    /\ semaphore = 1
    /\ pc = <<>>
    /\ gathered = <<>>
    /\ escaped = <<>>
    /\ lo = 1
    /\ hi = 0
    /\ stopped = FALSE
    /\ results = <<>>
    /\ adapter = AdapterInit
    /\ benchmark_result = None
    /\ self_traces = <<>>
    /\ self_results = <<>>
    /\ NoAdapters

\* A task body that records every attempt that yields a result, with an empty
\* trace for those that did not complete
Keep_EveryResult(outcome) ==
    IF "status" \in DOMAIN outcome
    THEN /\ self_traces' = Append(self_traces,
                                  IF outcome.trace # None THEN outcome.trace[1]
                                  ELSE [task_id |-> outcome.task_id, turns |-> 0])
         /\ self_results' = Append(self_results, outcome)
    ELSE UNCHANGED kept

\* The end of the success path of _execute_task_internal: the trace and the
\* result of a task that completed are appended to the executor's lists; no
\* other path (except clause, timeout, cancellation) appends anything
Keep(outcome) ==
    IF "status" \in DOMAIN outcome /\ outcome.status = "completed"
    THEN /\ self_traces' = Append(self_traces, outcome.trace[1])
         /\ self_results' = Append(self_results, outcome)
    ELSE UNCHANGED kept

\* ---------------------------------------------------------------- sequential
\* A loop that never breaks
SeqAppend_NoBreak(result, stop) ==
    /\ results' = Append(results, result)
    /\ pc' = [pc EXCEPT ![lo] = "done"]
    /\ stopped' = FALSE
    /\ lo' = lo + 1

\* The end of one loop iteration of SequentialExecutor.execute_benchmark:
\* append the result, break if stop_on_failure asks for it
SeqAppend(result, stop) ==
    /\ results' = Append(results, result)
    /\ pc' = [pc EXCEPT ![lo] = "done"]
    /\ stopped' = stop
    /\ lo' = IF stop THEN lo ELSE lo + 1

\* A loop without the per-task except clause: an exception raised before the
\* adapter call ends the loop with no result for the task
SeqDispatch_Uncaught ==
    /\ mode = "sequential" /\ phase = "loop"
    /\ lo <= N /\ ~stopped /\ pc[lo] = "idle"
    /\ IF ReachesAdapter(tasks[lo].kind)
       THEN /\ pc' = [pc EXCEPT ![lo] = "running"]
            /\ UNCHANGED << results, stopped, lo, escaped >>
       ELSE /\ pc' = [pc EXCEPT ![lo] = "done"]
            /\ stopped' = TRUE
            /\ UNCHANGED << results, lo, escaped >>
    /\ UNCHANGED << config, kept, phase, semaphore, gathered, hi, adapter, benchmark_result >>

\* A loop that creates the adapter call of the next task without awaiting the
\* one in flight
SeqDispatch_NoAwait ==
    /\ mode = "sequential" /\ phase = "loop"
    /\ ~stopped
    /\ \E i \in lo..N :
          /\ pc[i] = "idle"
          /\ \A j \in lo..(i - 1) : pc[j] = "running"
          /\ ReachesAdapter(tasks[i].kind)
          /\ pc' = [pc EXCEPT ![i] = "running"]
    /\ UNCHANGED << config, kept, phase, semaphore, gathered, hi, adapter, benchmark_result,
                    results, stopped, lo, escaped >>

\* A loop iteration up to the await of the adapter call: _create_context, then
\* execute_task -> _execute_with_timeout -> _execute_task_internal steps 1-2.
\* An exception here reaches the loop's except clause.
SeqDispatch ==
    /\ mode = "sequential" /\ phase = "loop"
    /\ lo <= N /\ ~stopped /\ pc[lo] = "idle"
    /\ IF ReachesAdapter(tasks[lo].kind)
       THEN /\ pc' = [pc EXCEPT ![lo] = "running"]
            /\ UNCHANGED << results, stopped, lo, escaped >>
       ELSE /\ SeqAppend(FailedResult(tasks[lo], 0, ExcMessage(tasks[lo].kind)),
                         stop_on_failure)
            /\ escaped' = IF tasks[lo].kind = "badmsg"
                          THEN [escaped EXCEPT ![lo] = Some(ExcMessage("badmsg"))]
                          ELSE escaped
    /\ UNCHANGED << config, kept, phase, semaphore, gathered, hi, adapter, benchmark_result >>

\* The adapter call of the task in flight ends (returns, raises or is timed
\* out) and execute_task returns its result to the loop
SeqFinish ==
    /\ mode = "sequential" /\ phase = "loop"
    /\ lo <= N /\ pc[lo] = "running"
    /\ \E elapsed \in ElapsedTimes :
         LET ad == AdapterAfter(tasks[lo], adapter)
             result == _execute_with_timeout(tasks[lo], elapsed, ad, task_timeout)
         IN /\ adapter' = ad
            /\ Keep(result)
            /\ SeqAppend(result, stop_on_failure /\ ~is_successful(result))
    /\ UNCHANGED << config, phase, semaphore, gathered, escaped, hi, benchmark_result >>

\* After the loop: aggregate and return
SeqAggregate ==
    /\ mode = "sequential" /\ phase = "loop"
    /\ lo > N \/ stopped
    /\ benchmark_result' = Some(_aggregate_results(results))
    /\ phase' = "returned"
    /\ UNCHANGED << config, kept, semaphore, pc, gathered, escaped, lo, hi, stopped,
                    results, adapter >>

\* ---------------------------------------------------------------- parallel
\* The coroutines execute_with_progress(task, i + 1) of one gather call
Batch == lo..hi

\* ParallelExecutor.execute_benchmark: create one coroutine per task and
\* hand them all to asyncio.gather
ParLaunch ==
    /\ mode = "parallel" /\ phase = "launch"
    /\ hi' = N
    /\ pc' = [i \in 1..N |-> "created"]
    /\ phase' = "gather"
    /\ UNCHANGED << config, kept, semaphore, gathered, escaped, lo, stopped, results,
                    adapter, benchmark_result >>

\* A loop that hands the whole rest of the list to one execute_benchmark call
BatchLaunch_Unchunked ==
    /\ mode = "batched" /\ phase = "loop"
    /\ lo <= N
    /\ hi' = N
    /\ pc' = [i \in 1..N |-> IF i \in lo..N THEN "created" ELSE pc[i]]
    /\ phase' = "gather"
    /\ UNCHANGED << config, kept, semaphore, gathered, escaped, lo, stopped, results,
                    adapter, benchmark_result >>

\* execute_benchmark_batched: take batch = tasks[i : i + batch_size] and call
\* execute_benchmark on it
BatchLaunch ==
    /\ mode = "batched" /\ phase = "loop"
    /\ lo <= N
    /\ hi' = Min(lo + batch_size - 1, N)
    /\ pc' = [i \in 1..N |-> IF i \in lo..Min(lo + batch_size - 1, N)
                               THEN "created" ELSE pc[i]]
    /\ phase' = "gather"
    /\ UNCHANGED << config, kept, semaphore, gathered, escaped, lo, stopped, results,
                    adapter, benchmark_result >>

\* A gate acquired by hand and released only on the normal path: an exception
\* raised by steps 1-2 leaves the slot taken
EnterBody_NoReleaseOnRaise(i) ==
    IF ReachesAdapter(tasks[i].kind)
    THEN /\ semaphore' = semaphore - 1
         /\ pc' = [pc EXCEPT ![i] = "running"]
         /\ UNCHANGED << gathered, escaped >>
    ELSE /\ semaphore' = semaphore - 1
         /\ pc' = [pc EXCEPT ![i] = "done"]
         /\ escaped' = [escaped EXCEPT ![i] = Some(ExcMessage(tasks[i].kind))]
         /\ gathered' = [gathered EXCEPT
                           ![i] = Some(FailedResult(tasks[i], 0, ExcMessage(tasks[i].kind)))]

\* Task i holds the semaphore: execute_task's body up to the await of the
\* adapter call. An exception raised by steps 1-2 leaves the async with block
\* (releasing the slot), leaves execute_task and is caught by
\* execute_with_progress.
EnterBody(i) ==
    IF ReachesAdapter(tasks[i].kind)
    THEN /\ semaphore' = semaphore - 1
         /\ pc' = [pc EXCEPT ![i] = "running"]
         /\ UNCHANGED << gathered, escaped >>
    ELSE /\ semaphore' = semaphore
         /\ pc' = [pc EXCEPT ![i] = "done"]
         /\ escaped' = [escaped EXCEPT ![i] = Some(ExcMessage(tasks[i].kind))]
         /\ gathered' = [gathered EXCEPT
                           ![i] = Some(FailedResult(tasks[i], 0, ExcMessage(tasks[i].kind)))]

\* A first step whose deadline runs from the moment the coroutine starts: a
\* task that finds no free slot may be timed out while it waits for one
Start_ClockBeforeGate(i) ==
    /\ phase = "gather" /\ i \in Batch
    /\ pc[i] = "created"
    /\ \A j \in Batch : j < i => pc[j] # "created"
    /\ IF tasks[i].kind \in {"badctx", "escape"}
       THEN /\ pc' = [pc EXCEPT ![i] = "done"]
            /\ gathered' = [gathered EXCEPT ![i] = Some(ContextFailureOutcome(tasks[i]))]
            /\ UNCHANGED << semaphore, escaped >>
       ELSE IF semaphore > 0
            THEN EnterBody(i)
            ELSE \/ /\ pc' = [pc EXCEPT ![i] = "waiting"]
                    /\ UNCHANGED << semaphore, gathered, escaped >>
                 \/ /\ pc' = [pc EXCEPT ![i] = "done"]
                    /\ gathered' = [gathered EXCEPT
                           ![i] = Some(_create_timeout_result(tasks[i], task_timeout))]
                    /\ UNCHANGED << semaphore, escaped >>
    /\ UNCHANGED << config, kept, phase, lo, hi, stopped, results, adapter, benchmark_result >>

\* The first step of coroutine i (the event loop starts coroutines in list
\* order): _create_context, then execute_task up to its first suspension
Start(i) ==
    /\ phase = "gather" /\ i \in Batch
    /\ pc[i] = "created"
    /\ \A j \in Batch : j < i => pc[j] # "created"
    /\ IF tasks[i].kind \in {"badctx", "escape"}
       THEN /\ pc' = [pc EXCEPT ![i] = "done"]
            /\ gathered' = [gathered EXCEPT ![i] = Some(ContextFailureOutcome(tasks[i]))]
            /\ UNCHANGED << semaphore, escaped >>
       ELSE IF semaphore > 0
            THEN EnterBody(i)
            ELSE /\ pc' = [pc EXCEPT ![i] = "waiting"]
                 /\ UNCHANGED << semaphore, gathered, escaped >>
    /\ UNCHANGED << config, kept, phase, lo, hi, stopped, results, adapter, benchmark_result >>

\* Acquire without waiting for a free slot
Acquire_NoWait(i) ==
    /\ phase = "gather" /\ i \in Batch
    /\ pc[i] = "waiting"
    /\ EnterBody(i)
    /\ UNCHANGED << config, kept, phase, lo, hi, stopped, results, adapter, benchmark_result >>

\* A task waiting in "async with self.semaphore" gets a freed slot
Acquire(i) ==
    /\ phase = "gather" /\ i \in Batch
    /\ pc[i] = "waiting"
    /\ semaphore > 0
    /\ EnterBody(i)
    /\ UNCHANGED << config, kept, phase, lo, hi, stopped, results, adapter, benchmark_result >>

\* A task body that keeps its slot when it is timed out
Finish_LeakOnTimeout(i) ==
    /\ phase = "gather" /\ i \in Batch
    /\ pc[i] = "running"
    /\ \E elapsed \in ElapsedTimes :
         LET ad == AdapterAfter(tasks[i], adapter)
         IN /\ adapter' = ad
            /\ Keep(CoroutineOutcome(tasks[i], elapsed, ad, task_timeout))
            /\ gathered' = [gathered EXCEPT
                 ![i] = Some(CoroutineOutcome(tasks[i], elapsed, ad, task_timeout))]
    /\ semaphore' = IF tasks[i].kind = "hang" THEN semaphore ELSE semaphore + 1
    /\ pc' = [pc EXCEPT ![i] = "done"]
    /\ UNCHANGED << config, phase, escaped, lo, hi, stopped, results, benchmark_result >>

\* A task body that never gives its slot back
Finish_KeepSlot(i) ==
    /\ phase = "gather" /\ i \in Batch
    /\ pc[i] = "running"
    /\ \E elapsed \in ElapsedTimes :
         LET ad == AdapterAfter(tasks[i], adapter)
         IN /\ adapter' = ad
            /\ Keep(CoroutineOutcome(tasks[i], elapsed, ad, task_timeout))
            /\ gathered' = [gathered EXCEPT
                 ![i] = Some(CoroutineOutcome(tasks[i], elapsed, ad, task_timeout))]
    /\ pc' = [pc EXCEPT ![i] = "done"]
    /\ UNCHANGED << config, phase, semaphore, escaped, lo, hi, stopped, results,
                    benchmark_result >>

\* The adapter call of task i ends (returns, raises or is timed out):
\* _execute_with_timeout returns the result, the async with block releases the
\* slot, execute_with_progress returns the result to gather
Finish(i) ==
    /\ phase = "gather" /\ i \in Batch
    /\ pc[i] = "running"
    /\ \E elapsed \in ElapsedTimes :
         LET ad == AdapterAfter(tasks[i], adapter)
         IN /\ adapter' = ad
            /\ Keep(CoroutineOutcome(tasks[i], elapsed, ad, task_timeout))
            /\ gathered' = [gathered EXCEPT
                 ![i] = Some(CoroutineOutcome(tasks[i], elapsed, ad, task_timeout))]
    /\ semaphore' = semaphore + 1
    /\ pc' = [pc EXCEPT ![i] = "done"]
    /\ escaped' = IF tasks[i].kind = "cancel"
                  THEN [escaped EXCEPT ![i] = Some("CancelledError")]
                  ELSE escaped
    /\ UNCHANGED << config, phase, lo, hi, stopped, results, benchmark_result >>

\* What gather holds for a coroutine: the ExecutionResult it returned, or
\* (return_exceptions=True) the exception it raised.
IsExecutionResult(x) == "status" \in DOMAIN x

\* isinstance(result, Exception): CancelledError derives from BaseException
IsException(x) == ~IsExecutionResult(x) /\ x.cls = "Exception"

\* The loop body over gather's results: an exception at index i becomes a
\* failed result for tasks[i]
ProcessGathered(i, x) ==
    IF IsException(x) THEN FailedResult(tasks[i], 0, x.message) ELSE x

\* Results collected last-submitted first (the order in which the spec's
\* reverse-latency scenario completes them)
processed_results_Reversed ==
    [k \in 1..(hi - lo + 1) |-> ProcessGathered(hi - k + 1, gathered[hi - k + 1][1])]

\* results of asyncio.gather, in the order of the coroutines passed to it, each
\* exception among them converted
processed_results ==
    [k \in 1..(hi - lo + 1) |-> ProcessGathered(lo + k - 1, gathered[lo + k - 1][1])]

AllDone == \A i \in Batch : pc[i] = "done"

\* _aggregate_results reads r.is_successful of every element: it raises
\* AttributeError on an element that is not an ExecutionResult
AggregationRaises(rs) == \E k \in 1..Len(rs) : ~IsExecutionResult(rs[k])

\* ParallelExecutor.execute_benchmark after gather: aggregate and return, or
\* leave with the exception aggregation raised
ParJoin ==
    /\ mode = "parallel" /\ phase = "gather"
    /\ AllDone
    /\ IF AggregationRaises(processed_results)
       THEN /\ phase' = "raised"
            /\ UNCHANGED benchmark_result
       ELSE /\ benchmark_result' = Some(_aggregate_results(processed_results))
            /\ phase' = "returned"
    /\ UNCHANGED << config, kept, semaphore, pc, gathered, escaped, lo, hi, stopped,
                    results, adapter >>

\* A loop that keeps the last batch's task_results instead of extending
\* all_results with them
BatchJoin_KeepLast ==
    /\ mode = "batched" /\ phase = "gather"
    /\ AllDone
    /\ IF AggregationRaises(processed_results)
       THEN /\ phase' = "raised"
            /\ UNCHANGED << results, lo >>
       ELSE /\ results' = _aggregate_results(processed_results).task_results
            /\ lo' = lo + batch_size
            /\ phase' = "loop"
    /\ UNCHANGED << config, kept, semaphore, pc, gathered, escaped, hi, stopped,
                    adapter, benchmark_result >>

\* execute_benchmark_batched: the batch's execute_benchmark returns, its
\* task_results are appended to all_results, the loop goes to the next batch
BatchJoin ==
    /\ mode = "batched" /\ phase = "gather"
    /\ AllDone
    /\ IF AggregationRaises(processed_results)
       THEN /\ phase' = "raised"
            /\ UNCHANGED << results, lo >>
       ELSE /\ results' = results \o _aggregate_results(processed_results).task_results
            /\ lo' = lo + batch_size
            /\ phase' = "loop"
    /\ UNCHANGED << config, kept, semaphore, pc, gathered, escaped, hi, stopped,
                    adapter, benchmark_result >>

\* execute_benchmark_batched after the last batch: aggregate all_results
BatchAggregate ==
    /\ mode = "batched" /\ phase = "loop"
    /\ lo > N
    /\ benchmark_result' = Some(_aggregate_results(results))
    /\ phase' = "returned"
    /\ UNCHANGED << config, kept, semaphore, pc, gathered, escaped, lo, hi, stopped,
                    results, adapter >>

StartSome == \E i \in 1..N : Start(i)
AcquireSome == \E i \in 1..N : Acquire(i)
FinishSome == \E i \in 1..N : Finish(i)

\* ---------------------------------------------------------------- specification
Next ==
    \/ SeqDispatch
    \/ SeqFinish
    \/ SeqAggregate
    \/ ParLaunch
    \/ BatchLaunch
    \/ StartSome
    \/ AcquireSome
    \/ FinishSome
    \/ ParJoin
    \/ BatchJoin
    \/ BatchAggregate

Spec == Init /\ [][Next]_vars

\* The ways a task can go through the gate: through its adapter call to a
\* success or to a timeout, through the slot without an adapter call, or not
\* to the gate at all
GateKinds == {"ok", "hang", "badmsg", "badctx"}

InitFair ==
    /\ Init
    /\ \A i \in 1..Len(tasks) : tasks[i].kind \in GateKinds

\* The event loop runs every coroutine that is ready, and every adapter call
\* ends (it returns, raises or is cut off by wait_for): no step that stays
\* possible is put off forever
FairSpec == InitFair /\ [][Next]_vars /\ WF_vars(Next)

\* ---------------------------------------------------------------- executor lifetime
\* One executor used for several runs, with clear_traces called in between or
\* during a run
MaxKept == 2

KeptKinds == {"ok", "raise", "hang"}

InitKept ==
    /\ Init
    /\ \A i \in 1..Len(tasks) : tasks[i].kind \in KeptKinds

\* BaseExecutor.clear_traces
clear_traces ==
    /\ self_traces' = <<>>
    /\ self_results' = <<>>
    /\ UNCHANGED << config, phase, semaphore, pc, gathered, escaped, lo, hi, stopped,
                    results, adapter, benchmark_result >>

\* The next call of execute_benchmark on the same executor, with a fresh
\* adapter: the lists are what the earlier runs left. (The lists are unbounded
\* in the program; a run starts here while they hold fewer than MaxKept entries.)
execute_benchmark ==
    /\ phase \in {"returned", "raised"}
    /\ Len(self_results) < MaxKept
    /\ tasks' \in { t \in TaskLists : \A i \in 1..Len(t) : t[i].kind \in KeptKinds }
    /\ mode' \in Modes
    /\ stop_on_failure' \in (IF mode' = "sequential" THEN BOOLEAN ELSE {FALSE})
    /\ max_concurrency' \in (IF mode' = "sequential" THEN {1} ELSE 1..MaxConcurrency)
    /\ batch_size' \in (IF mode' = "batched" THEN 1..MaxBatchSize ELSE {1})
    /\ phase' = IF mode' = "parallel" THEN "launch" ELSE "loop"
    /\ semaphore' = max_concurrency'
    /\ pc' = [i \in 1..Len(tasks') |-> "idle"]
    /\ gathered' = [i \in 1..Len(tasks') |-> None]
    /\ escaped' = [i \in 1..Len(tasks') |-> None]
    /\ lo' = 1
    /\ hi' = 0
    /\ stopped' = FALSE
    /\ results' = <<>>
    /\ adapter' = AdapterInit
    /\ benchmark_result' = None
    /\ UNCHANGED << kept, args, ret, registry_vars >>

NextKept ==
    \/ SeqDispatch
    \/ SeqFinish
    \/ SeqAggregate
    \/ ParLaunch
    \/ BatchLaunch
    \/ StartSome
    \/ AcquireSome
    \/ FinishSome
    \/ ParJoin
    \/ BatchJoin
    \/ BatchAggregate
    \/ clear_traces
    \/ execute_benchmark

SpecKept == InitKept /\ [][NextKept]_vars

\* ---------------------------------------------------------------- join of escapes
\* Parallel runs whose tasks may also let an exception leave the wrapper
JoinKinds == {"ok", "raise", "hang"} \cup EscapeKinds

InitJoin ==
    /\ tasks \in UNION { { [i \in 1..n |-> [task_id |-> TaskIdOf(i), kind |-> k[i]]] :
                              k \in [1..n -> JoinKinds] } : n \in 0..MaxTasks }
    /\ mode = "parallel"
    /\ stop_on_failure = FALSE
    /\ max_concurrency \in 1..MaxConcurrency
    /\ batch_size = 1
    /\ phase = "launch"
    /\ semaphore = max_concurrency
    /\ pc = [i \in 1..Len(tasks) |-> "idle"]
    /\ gathered = [i \in 1..Len(tasks) |-> None]
    /\ escaped = [i \in 1..Len(tasks) |-> None]
    /\ lo = 1
    /\ hi = 0
    /\ stopped = FALSE
    /\ results = <<>>
    /\ adapter = AdapterInit
    /\ benchmark_result = None
    /\ self_traces = <<>>
    /\ self_results = <<>>
    /\ args = None
    /\ ret = None
    /\ NoAdapters

NextJoin ==
    \/ ParLaunch
    \/ StartSome
    \/ AcquireSome
    \/ FinishSome
    \/ ParJoin

SpecJoin == InitJoin /\ [][NextJoin]_vars

\* ---------------------------------------------------------------- properties
Parallel == mode \in {"parallel", "batched"}
Returned == phase = "returned"
BR == benchmark_result[1]
Running == {i \in 1..N : pc[i] = "running"}

\* The result of task i once it has one: Optional[ExecutionResult]
TaskResult(i) ==
    IF mode = "sequential"
    THEN (IF i <= Len(results) THEN Some(results[i]) ELSE None)
    ELSE gathered[i]
HasStatus(i, st) == TaskResult(i) # None /\ TaskResult(i)[1].status = st

\* C1: in ParallelExecutor the number of tasks holding a gate slot (mid-flight
\* in their adapter call) never exceeds max_concurrency, whatever mix of tasks
\* complete, raise or time out.
C1_ConcurrencyBound ==
    Parallel => Cardinality(Running) <= max_concurrency

\* C1 witness: the gate is full, a task waits at it, and an earlier task has
\* already left with a failure or a timeout.
C1_Witness ==
    /\ Parallel
    /\ Cardinality(Running) = max_concurrency
    /\ \E i \in 1..N : pc[i] = "waiting"
    /\ \E i \in 1..N : HasStatus(i, "timeout") \/ HasStatus(i, "failed")

\* C2: ParallelExecutor.execute_benchmark returns one result per task, aligned
\* to submission order: task_results[i].task_id = tasks[i].task_id for all i.
C2_OrderPreserved ==
    (mode = "parallel" /\ Returned) =>
        /\ Len(BR.task_results) = N
        /\ \A i \in 1..N : BR.task_results[i].task_id = tasks[i].task_id

\* C2 witness: a returned parallel run in which the second task completed
\* before the first (its snapshot of the adapter's cumulative cost is smaller).
C2_Witness ==
    /\ mode = "parallel" /\ Returned /\ N >= 2
    /\ BR.task_results[1].cost = Some(2)
    /\ BR.task_results[2].cost = Some(1)
    /\ BR.task_results[1].task_id = tasks[1].task_id
    /\ BR.task_results[2].task_id = tasks[2].task_id

\* C3: execute_task never raises: every failure of the per-task algorithm is
\* captured in the returned result. (Violated: _create_initial_messages runs
\* outside the try block of _execute_task_internal.)
C3_ExecuteTaskNeverRaises ==
    \A i \in 1..N : escaped[i] = None

\* C4: every returned BenchmarkResult has total_tasks = len(task_results) =
\* successful_tasks + failed_tasks, and a task that raised (in the adapter, in
\* validation, or before the adapter call) is represented by a failed result
\* at its own position, never dropped.
RaisingKinds == {"raise", "valraise", "badmsg", "badctx"}
C4_AggregationConservation ==
    Returned =>
        /\ BR.total_tasks = Len(BR.task_results)
        /\ BR.total_tasks = BR.successful_tasks + BR.failed_tasks
        /\ BR.successful_tasks + Cardinality({k \in 1..Len(BR.task_results) :
               ~is_successful(BR.task_results[k])}) = Len(BR.task_results)
        /\ ~stopped => Len(BR.task_results) = N
        /\ \A i \in 1..N :
             (tasks[i].kind \in RaisingKinds /\ pc[i] = "done") =>
                /\ i <= Len(BR.task_results)
                /\ BR.task_results[i].task_id = tasks[i].task_id
                /\ BR.task_results[i].status = "failed"

\* C4 witness: a returned run whose results mix a success, a timeout and a
\* task that raised.
C4_Witness ==
    /\ Returned /\ BR.total_tasks = 3
    /\ BR.successful_tasks = 1 /\ BR.failed_tasks = 2
    /\ \E i, j \in 1..N : /\ BR.task_results[i].status = "timeout"
                           /\ tasks[j].kind \in RaisingKinds
                           /\ BR.task_results[j].status = "failed"

\* C5: a task whose adapter call does not finish within context.timeout gets
\* a result with status timeout, success and validation_passed false,
\* execution_time equal to the configured timeout, an error message, and no
\* output, trace, token_usage or cost.
C5_TimeoutResult ==
    \A i \in 1..N :
        /\ (tasks[i].kind = "hang" /\ pc[i] = "done") => HasStatus(i, "timeout")
        /\ HasStatus(i, "timeout") =>
             LET r == TaskResult(i)[1]
             IN /\ tasks[i].kind = "hang"
                /\ r.success = FALSE /\ r.validation_passed = FALSE
                /\ r.execution_time = task_timeout
                /\ r.error # None /\ r.error # Some("")
                /\ r.output = None /\ r.trace = None
                /\ r.token_usage = None /\ r.cost = None

\* C5 witness: a timed-out task has its result, after the adapter already
\* accumulated usage from another task's call.
C5_Witness ==
    /\ \E i \in 1..N : tasks[i].kind = "hang" /\ HasStatus(i, "timeout")
    /\ adapter._total_cost > 0

\* C6: in a parallel run a task whose adapter call never returns ends with a
\* timeout result and affects only itself: siblings whose adapter call returns
\* get their completed result, and the timed-out task's slot is released, so a
\* sibling waiting at the gate always has a free slot or a running task ahead.
C6_TimeoutIsolation ==
    Parallel =>
        /\ \A i \in 1..N : pc[i] = "done" =>
               /\ tasks[i].kind = "hang" => HasStatus(i, "timeout")
               /\ tasks[i].kind \in {"ok", "invalid"} =>
                     /\ HasStatus(i, "completed")
                     /\ gathered[i][1].success = (tasks[i].kind = "ok")
        /\ (\E i \in 1..N : pc[i] = "waiting") => (semaphore > 0 \/ Running # {})
        /\ Returned => \A i \in 1..N : pc[i] = "done"

\* C6 witness: a task has timed out, its slot is free again, and a sibling
\* that was waiting at the (single-slot) gate can now be dispatched.
C6_Witness ==
    /\ Parallel /\ max_concurrency = 1
    /\ \E i, j \in 1..N :
         /\ HasStatus(i, "timeout")
         /\ pc[j] = "waiting" /\ tasks[j].kind = "ok"
         /\ semaphore = 1

\* The status and success a task of a given kind gets when run on its own
ExpectedStatus(kind) ==
    CASE kind \in {"ok", "invalid"} -> "completed"
      [] kind = "hang" -> "timeout"
      [] OTHER -> "failed"

\* C7: without stop_on_failure, in both executors, a task whose adapter raises
\* gets status failed, success false and error = the exception's message; the
\* run still returns exactly one result per task and every other task has
\* the outcome its own behaviour gives it.
C7_AdapterExceptionIsolated ==
    (Returned /\ ~stop_on_failure) =>
        /\ Len(BR.task_results) = N
        /\ \A i \in 1..N :
             LET r == BR.task_results[i]
             IN /\ r.task_id = tasks[i].task_id
                /\ r.status = ExpectedStatus(tasks[i].kind)
                /\ r.success = (tasks[i].kind = "ok")
                /\ tasks[i].kind = "raise" =>
                      /\ r.status = "failed" /\ r.success = FALSE
                      /\ r.error = Some(ExcMessage("raise"))

\* C7 witness: a returned run in which the first task's adapter raised and a
\* later task completed successfully.
C7_Witness ==
    /\ Returned /\ ~stop_on_failure /\ N >= 2
    /\ tasks[1].kind = "raise" /\ BR.task_results[1].status = "failed"
    /\ tasks[2].kind = "ok" /\ is_successful(BR.task_results[2])

\* C8: SequentialExecutor with stop_on_failure returns exactly the prefix of
\* the task list up to and including the first unsuccessful result; no later
\* task is executed or represented, and aggregation is over that prefix.
C8_StopOnFailurePrefix ==
    (mode = "sequential" /\ stop_on_failure) =>
        /\ \A k \in 1..Len(results) :
             /\ results[k].task_id = tasks[k].task_id
             /\ k < Len(results) => is_successful(results[k])
        /\ \A i \in 1..N : i > Len(results) + 1 => pc[i] = "idle"
        /\ \A i \in 1..N :
             (\E k \in 1..Len(results) : k < i /\ ~is_successful(results[k]))
                 => pc[i] = "idle"
        /\ Returned =>
             /\ BR.task_results = results
             /\ BR.total_tasks = Len(results)
             /\ Len(results) < N => ~is_successful(results[Len(results)])
             /\ Len(results) = N \/ stopped

\* C8 witness: tasks [ok, fail, ok] return exactly two results and the third
\* task was never started.
C8_Witness ==
    /\ mode = "sequential" /\ stop_on_failure /\ Returned /\ N = 3
    /\ tasks[1].kind = "ok" /\ tasks[2].kind = "raise" /\ tasks[3].kind = "ok"
    /\ BR.total_tasks = 2 /\ pc[3] = "idle"

\* C9: in SequentialExecutor.execute_benchmark an exception raised outside
\* _execute_with_timeout (context construction) becomes a failed result for
\* that task (success false, execution_time 0, error = message); without
\* stop_on_failure the loop continues and every task gets exactly one result.
C9_OuterExceptionConverted ==
    mode = "sequential" =>
        /\ \A k \in 1..Len(results) :
             tasks[k].kind = "badctx" =>
                /\ results[k].task_id = tasks[k].task_id
                /\ results[k].status = "failed"
                /\ results[k].success = FALSE
                /\ results[k].execution_time = 0
                /\ results[k].error = Some(ExcMessage("badctx"))
        /\ \A i \in 1..N : pc[i] = "done" => i <= Len(results)
        /\ (Returned /\ ~stop_on_failure) =>
             /\ Len(BR.task_results) = N
             /\ \A i \in 1..N : BR.task_results[i].task_id = tasks[i].task_id

\* C9 witness: context construction failed for the first task and the loop
\* went on to run the second one to completion.
C9_Witness ==
    /\ mode = "sequential" /\ ~stop_on_failure /\ Returned /\ N >= 2
    /\ tasks[1].kind = "badctx" /\ BR.task_results[1].status = "failed"
    /\ BR.task_results[2].status = "completed"

\* C10: every acquisition of a gate slot is matched by exactly one release on
\* every exit path: free slots + in-flight tasks = max_concurrency always, and
\* all max_concurrency slots are free once execute_benchmark has returned.
C10_SlotsBalanced ==
    Parallel =>
        /\ semaphore + Cardinality(Running) = max_concurrency
        /\ semaphore >= 0
        /\ Returned => semaphore = max_concurrency

\* C10 witness: a returned parallel run whose tasks left the body by every
\* exit path (completed, exception in the adapter, exception before the
\* adapter call, timeout).
C10_Witness ==
    /\ Parallel /\ Returned /\ semaphore = max_concurrency
    /\ \E i \in 1..N : HasStatus(i, "completed")
    /\ \E i \in 1..N : HasStatus(i, "timeout")
    /\ \E i \in 1..N : tasks[i].kind \in {"raise", "badmsg"} /\ HasStatus(i, "failed")

\* C11: an exception that leaves a task's wrapper is replaced at the join, at
\* the same index, by a failed ExecutionResult carrying tasks[i].task_id, so
\* that aggregation gets ExecutionResults only and the run returns. (Violated:
\* a CancelledError is no instance of Exception and is passed on as it is.)
C11_JoinConvertsEscapes ==
    /\ phase # "raised"
    /\ (phase = "gather" /\ AllDone) =>
          \A i \in Batch :
              ~IsExecutionResult(gathered[i][1]) =>
                  LET r == processed_results[i - lo + 1]
                  IN /\ IsExecutionResult(r)
                     /\ r.task_id = tasks[i].task_id
                     /\ r.status = "failed" /\ r.success = FALSE
                     /\ r.error # None

\* What one unbatched execute_benchmark over the whole list makes of the
\* per-task outcomes the coroutines produced
UnbatchedResults == [k \in 1..N |-> ProcessGathered(k, gathered[k][1])]

\* C12: for every task list and batch size, execute_benchmark_batched returns
\* one result per task in input order (ids aligned, total_tasks = len(tasks)),
\* and its task_results, successful_tasks and failed_tasks are those a single
\* unbatched execute_benchmark yields from the same per-task outcomes.
C12_BatchedEqualsUnbatched ==
    (Returned /\ mode = "batched") =>
        /\ BR.total_tasks = N
        /\ Len(BR.task_results) = N
        /\ \A i \in 1..N : BR.task_results[i].task_id = tasks[i].task_id
        /\ BR.task_results = UnbatchedResults
        /\ BR.successful_tasks = _aggregate_results(UnbatchedResults).successful_tasks
        /\ BR.failed_tasks = _aggregate_results(UnbatchedResults).failed_tasks

\* A batched run of three tasks in chunks of two (the last chunk partial),
\* with a success and a failure among them, has returned
C12_Witness ==
    /\ Returned /\ mode = "batched"
    /\ N = 3 /\ batch_size = 2
    /\ BR.successful_tasks >= 1 /\ BR.failed_tasks >= 1

\* C13: aggregation never raises (no division by zero, the run does not end
\* with an exception); a run over an empty task list, in either executor,
\* returns total_tasks = successful_tasks = failed_tasks = 0, success_rate 0.0
\* and average_execution_time 0.0; a run in which every task failed returns
\* successful_tasks = 0 and failed_tasks = total_tasks.
C13_EmptyAggregation ==
    /\ phase # "raised"
    /\ Returned =>
          /\ BR.average_execution_time.den # 0
          /\ success_rate(BR).den # 0
          /\ N = 0 =>
                /\ BR.task_results = <<>>
                /\ BR.total_tasks = 0
                /\ BR.successful_tasks = 0
                /\ BR.failed_tasks = 0
                /\ success_rate(BR) = Zero
                /\ BR.average_execution_time = Zero
          /\ (\A k \in 1..Len(BR.task_results) : ~is_successful(BR.task_results[k])) =>
                /\ BR.successful_tasks = 0
                /\ BR.failed_tasks = BR.total_tasks
                /\ success_rate(BR).num = 0

\* A run over the empty task list has returned its aggregate
C13_Witness ==
    /\ Returned
    /\ tasks = <<>>
    /\ BR.total_tasks = 0

\* ---------------------------------------------------------------- success criteria
MaxCriteria == 2
MaxOutputLen == 2

\* Texts are sequences of characters
Chars == {"4", "5"}
Texts(n) == UNION { [1..k -> Chars] : k \in 0..n }
ToolNames == {"calculator", "search"}

\* SuccessCriterionType: the two types validate_success checks, and one of
\* the five it does not
CriterionTypes == {"output_contains", "tool_called", "output_matches"}
SupportedTypes == {"output_contains", "tool_called"}

\* SuccessCriterion (type, value, tool, required)
SuccessCriteria ==
    [ type : CriterionTypes, value : Texts(1) \ {<<>>}, tool : {"calculator"},
      required : BOOLEAN ]

\* Python's "value in output" on str: value occurs as a contiguous run
Contains(output, value) ==
    \E k \in 0..(Len(output) - Len(value)) :
        SubSeq(output, k + 1, k + Len(value)) = value

\* The check of one criterion of a supported type
Check(criterion, result) ==
    IF criterion.type = "output_contains"
    THEN Contains(result.output, criterion.value)
    ELSE criterion.tool \in result.tools_called

\* The loop of validate_success: the list "passed" after the criteria given
RECURSIVE Passed(_, _, _)
Passed(passed, criteria, result) ==
    IF criteria = <<>> THEN passed
    ELSE LET criterion == Head(criteria)
         IN IF ~criterion.required
            THEN Passed(passed, Tail(criteria), result)
            ELSE IF criterion.type \in SupportedTypes
                 THEN Passed(Append(passed, Check(criterion, result)),
                             Tail(criteria), result)
                 ELSE Passed(passed, Tail(criteria), result)

\* Python's all()
All(bs) == \A k \in 1..Len(bs) : bs[k]

\* A validation for which an empty list of checks passes, as all([]) does
validate_success_AllOfNone(success_criteria, result) ==
    IF success_criteria = <<>> THEN TRUE
    ELSE All(Passed(<<>>, success_criteria, result))

\* Task.validate_success
validate_success(success_criteria, result) ==
    IF success_criteria = <<>> THEN TRUE
    ELSE LET passed == Passed(<<>>, success_criteria, result)
         IN IF passed # <<>> THEN All(passed) ELSE FALSE

InitValidate ==
    /\ NoRun
    /\ args \in [ success_criteria : UNION { [1..n -> SuccessCriteria] : n \in 0..MaxCriteria },
                   result : [ output : Texts(MaxOutputLen),
                              tools_called : SUBSET ToolNames ] ]
    /\ ret = None

\* task.validate_success(result) is called once
ValidateCall ==
    /\ ret = None
    /\ ret' = Some(validate_success(args.success_criteria, args.result))
    /\ UNCHANGED << executor_vars, registry_vars, args >>

NextValidate == ValidateCall

SpecValidate == InitValidate /\ [][NextValidate]_vars

\* C14: validate_success returns True for a task without criteria; otherwise
\* it returns True exactly when every required criterion of a supported type
\* holds (substring of the output, tool among the tools called), criteria of
\* other types and non-required criteria being left out of account.
\* (Violated: when nothing was checked, the declared criteria being all
\* non-required or of unsupported types, it returns False.)
C14_RequiredCriteriaDecide ==
    ret # None =>
        ret[1] = (\A k \in 1..Len(args.success_criteria) :
                     LET criterion == args.success_criteria[k]
                     IN (criterion.required /\ criterion.type \in SupportedTypes)
                            => Check(criterion, args.result))

\* ---------------------------------------------------------------- token algebra
\* TokenUsage values: int base fields, Optional[int] cache fields
TokenUsages ==
    [ input_tokens : {0, 2}, output_tokens : {0, 1}, total_tokens : {0, 3},
      cache_read_tokens : {None, Some(0), Some(1)},
      cache_write_tokens : {None, Some(2)} ]

InitTokens ==
    /\ NoRun
    /\ args \in [a : TokenUsages, b : TokenUsages, c : TokenUsages]
    /\ ret = None

\* a + b, b + a, (a + b) + c and a + (b + c) are evaluated
AddCall ==
    /\ ret = None
    /\ ret' = Some([ ab   |-> TokenUsageAdd(args.a, args.b),
                     ba   |-> TokenUsageAdd(args.b, args.a),
                     ab_c |-> TokenUsageAdd(TokenUsageAdd(args.a, args.b), args.c),
                     a_bc |-> TokenUsageAdd(args.a, TokenUsageAdd(args.b, args.c)) ])
    /\ UNCHANGED << executor_vars, registry_vars, args >>

NextTokens == AddCall

SpecTokens == InitTokens /\ [][NextTokens]_vars

\* C15: a + b is the field-wise sum of input_tokens, output_tokens,
\* total_tokens and of the cache fields with a missing cache field counted as
\* zero; a + b = b + a and (a + b) + c = a + (b + c) for all token usages.
C15_TokenAlgebra ==
    ret # None =>
        LET a == args.a
            b == args.b
            s == ret[1].ab
        IN /\ s.input_tokens = a.input_tokens + b.input_tokens
           /\ s.output_tokens = a.output_tokens + b.output_tokens
           /\ s.total_tokens = a.total_tokens + b.total_tokens
           /\ s.cache_read_tokens =
                  Some((IF a.cache_read_tokens = None THEN 0 ELSE a.cache_read_tokens[1])
                     + (IF b.cache_read_tokens = None THEN 0 ELSE b.cache_read_tokens[1]))
           /\ s.cache_write_tokens =
                  Some((IF a.cache_write_tokens = None THEN 0 ELSE a.cache_write_tokens[1])
                     + (IF b.cache_write_tokens = None THEN 0 ELSE b.cache_write_tokens[1]))
           /\ ret[1].ab = ret[1].ba
           /\ ret[1].ab_c = ret[1].a_bc

\* A usage with cache fields only was added to one without any, and a third
\* operand differed from both
C15_Witness ==
    /\ ret # None
    /\ args.a.cache_read_tokens = None /\ args.a.input_tokens = 2
    /\ args.b.cache_read_tokens = Some(1) /\ args.b.input_tokens = 0
    /\ args.b.output_tokens = 0 /\ args.b.total_tokens = 0
    /\ args.c # args.a /\ args.c # args.b
    /\ ret[1].ab.cache_read_tokens = Some(1)

\* ---------------------------------------------------------------- aggregation of usage and cost
\* Two usages a result can carry: without and with cache counters
ResultUsages ==
    { [ input_tokens |-> 1, output_tokens |-> 1, total_tokens |-> 2,
        cache_read_tokens |-> None, cache_write_tokens |-> None ],
      [ input_tokens |-> 2, output_tokens |-> 0, total_tokens |-> 2,
        cache_read_tokens |-> Some(1), cache_write_tokens |-> None ] }

\* Two costs a result can carry: a small one, and one at the magnitude where
\* the small one is half a unit in the last place
ResultCosts == {1, Pow2(MantissaBits)}

\* ExecutionResults as _aggregate_results may be given them: token_usage and
\* cost are Optional fields, each present or absent
Carried ==
    [ token_usage : {None} \cup { Some(x) : x \in ResultUsages },
      cost        : {None} \cup { Some(x) : x \in ResultCosts } ]

AnyResult(i, carried) ==
    [CompletedResult([task_id |-> TaskIdOf(i)], TRUE, 0, TokenUsage0, 0)
        EXCEPT !.token_usage = carried.token_usage, !.cost = carried.cost]

InitCost ==
    /\ NoRun
    /\ args \in UNION { [ results : { [i \in 1..n |-> AnyResult(i, carried[i])] :
                                         carried \in [1..n -> Carried] },
                            order   : Permutations(1..n) ] : n \in 0..MaxTasks }
    /\ ret = None

\* The results in another order
Reordered(rs, order) == [k \in 1..Len(rs) |-> rs[order[k]]]

\* _aggregate_results is called on the results, and on the same results in
\* another order
AggregateCall ==
    /\ ret = None
    /\ ret' = Some([ given     |-> _aggregate_results(args.results),
                     reordered |-> _aggregate_results(Reordered(args.results, args.order)) ])
    /\ UNCHANGED << executor_vars, registry_vars, args >>

NextCost == AggregateCall

SpecCost == InitCost /\ [][NextCost]_vars

\* The sum of f over the index set S
RECURSIVE SumOver(_, _)
SumOver(f, S) ==
    IF S = {} THEN 0
    ELSE LET x == CHOOSE x \in S : TRUE IN f[x] + SumOver(f, S \ {x})

WithUsage(rs) == { k \in 1..Len(rs) : rs[k].token_usage # None }
WithCost(rs) == { k \in 1..Len(rs) : rs[k].cost # None }
ExactCost(rs) == SumOver([k \in WithCost(rs) |-> rs[k].cost[1]], WithCost(rs))

BelowOne(x) == x.num < x.den

\* The counts and the two views of a BenchmarkResult agree with its
\* task_results: successful_tasks counts the results with status completed
\* and success true, the views have sizes successful_tasks and failed_tasks,
\* every result is in exactly one of them, and no timeout or failed result
\* is in the successful view
ViewsPartition(b) ==
    LET S == get_successful_tasks(b)
        F == get_failed_tasks(b)
        InView(r, V) == \E k \in 1..Len(V) : V[k] = r
    IN /\ b.successful_tasks =
             Cardinality({ k \in 1..Len(b.task_results) :
                             /\ b.task_results[k].status = "completed"
                             /\ b.task_results[k].success })
       /\ Len(S) = b.successful_tasks
       /\ Len(F) = b.failed_tasks
       /\ Len(S) + Len(F) = Len(b.task_results)
       /\ \A k \in 1..Len(b.task_results) :
             InView(b.task_results[k], S) # InView(b.task_results[k], F)
       /\ \A k \in 1..Len(S) : S[k].status \notin {"timeout", "failed"}

\* C17 (as stated): the counts and views agree with task_results, and
\* success_rate < 1.0 exactly when the failed-tasks view is non-empty.
\* (Violated by the result of an empty run: success_rate is 0.0 and the
\* failed-tasks view is empty.)
C17_RateBelowOneIffFailures ==
    Returned =>
        /\ ViewsPartition(BR)
        /\ BelowOne(success_rate(BR)) <=> (get_failed_tasks(BR) # <<>>)

\* C17 (amended): the counts and views agree with task_results; for a
\* result with at least one task, success_rate < 1.0 exactly when the
\* failed-tasks view is non-empty; for a result without tasks success_rate
\* is 0.0 and both views are empty.
C17_CountsAndViews ==
    Returned =>
        /\ ViewsPartition(BR)
        /\ BR.total_tasks > 0 =>
              (BelowOne(success_rate(BR)) <=> (get_failed_tasks(BR) # <<>>))
        /\ BR.total_tasks = 0 =>
              /\ success_rate(BR) = Zero
              /\ get_failed_tasks(BR) = <<>>
              /\ get_successful_tasks(BR) = <<>>

\* A run has returned a successful result, a completed result that failed
\* validation and a timeout
C17_Witness ==
    /\ Returned
    /\ \E i, j, k \in 1..Len(BR.task_results) :
          /\ is_successful(BR.task_results[i])
          /\ BR.task_results[j].status = "completed" /\ ~BR.task_results[j].success
          /\ BR.task_results[k].status = "timeout"
    /\ BR.successful_tasks = 1
    /\ BR.failed_tasks = 2

TerminalStatuses == ExecutionStatus \ {"pending", "running", "cancelled"}

\* Every result that exists has a terminal status, and a task has a result
\* exactly when its attempt has ended; the results returned are these results
ResultsTerminal ==
    /\ \A i \in 1..N :
          /\ TaskResult(i) # None <=> pc[i] = "done"
          /\ TaskResult(i) # None =>
                /\ TaskResult(i)[1].status \in TerminalStatuses
                /\ TaskResult(i)[1].task_id = tasks[i].task_id
    /\ \A k \in 1..Len(results) :
          /\ results[k].status \in TerminalStatuses
          /\ TaskResult(k) = Some(results[k])
    /\ Returned =>
          /\ Len(BR.task_results) = Cardinality({ i \in 1..N : pc[i] = "done" })
          /\ \A k \in 1..Len(BR.task_results) :
                /\ BR.task_results[k].status \in TerminalStatuses
                /\ TaskResult(k) = Some(BR.task_results[k])

\* A step leaves every existing result as it is
ResultsKept ==
    /\ \A i \in 1..N : TaskResult(i) # None => TaskResult(i)' = TaskResult(i)
    /\ \A k \in 1..Len(results) : Len(results') >= k /\ results'[k] = results[k]
    /\ benchmark_result # None => benchmark_result' = benchmark_result

\* C18: every ExecutionResult produced by either executor has a status in
\* {completed, failed, timeout} (never cancelled, pending or running), each
\* task attempt yields exactly one result, and once a task's result exists
\* no later step of the run (dispatch of other tasks, join, aggregation)
\* changes it.
C18_TerminalAndImmutable == []ResultsTerminal /\ [][ResultsKept]_vars

\* A run has returned results of all three terminal statuses
C18_Witness ==
    /\ Returned
    /\ \A st \in TerminalStatuses :
          \E k \in 1..Len(BR.task_results) : BR.task_results[k].status = st

\* ---------------------------------------------------------------- adapter registry
\* Classes handed to the registry: two subclasses of BaseAdapter and a class
\* that is none
AdapterClasses == {"AnthropicAdapter", "DuplicateAdapter"}
OtherClasses == {"NotAnAdapter"}
Descriptions == {"", "Anthropic Claude adapter"}

\* name in cls._adapters / name in cls._metadata
InDict(dict, name) == dict[name] # None

\* What a call did: the exception it raised ("" for none) and what it returned
Raised(exception) == Some([raised |-> exception, value |-> None])
ReturnedValue(value) == Some([raised |-> "", value |-> Some(value)])
ReturnedNone == Some([raised |-> "", value |-> None])

InitRegistry ==
    /\ NoRun
    /\ args = None
    /\ ret = None

\* A decorator that registers over an existing entry
register_Overwrite(name, adapter_class, description, supports_tools) ==
    /\ args' = Some([op |-> "register", name |-> name])
    /\ IF adapter_class \notin AdapterClasses
       THEN /\ ret' = Raised("TypeError")
            /\ UNCHANGED registry_vars
       ELSE /\ _adapters' = [_adapters EXCEPT ![name] = Some(adapter_class)]
            /\ _metadata' = [_metadata EXCEPT ![name] =
                                Some([ name               |-> name,
                                       class_name         |-> adapter_class,
                                       description        |-> description,
                                       supports_tools     |-> supports_tools,
                                       supports_streaming |-> TRUE ])]
            /\ ret' = ReturnedValue([class |-> adapter_class])
    /\ UNCHANGED executor_vars

\* AdapterRegistry.register(name, description, supports_tools)(adapter_class)
register(name, adapter_class, description, supports_tools) ==
    /\ args' = Some([op |-> "register", name |-> name])
    /\ IF InDict(_adapters, name)
       THEN /\ ret' = Raised("ValueError")
            /\ UNCHANGED registry_vars
       ELSE IF adapter_class \notin AdapterClasses
       THEN /\ ret' = Raised("TypeError")
            /\ UNCHANGED registry_vars
       ELSE /\ _adapters' = [_adapters EXCEPT ![name] = Some(adapter_class)]
            /\ _metadata' = [_metadata EXCEPT ![name] =
                                Some([ name               |-> name,
                                       class_name         |-> adapter_class,
                                       description        |-> description,
                                       supports_tools     |-> supports_tools,
                                       supports_streaming |-> TRUE ])]
            /\ ret' = ReturnedValue([class |-> adapter_class])
    /\ UNCHANGED executor_vars

\* AdapterRegistry.register_adapter(name, adapter_class, description)
register_adapter(name, adapter_class, description) ==
    /\ args' = Some([op |-> "register_adapter", name |-> name])
    /\ IF InDict(_adapters, name)
       THEN /\ ret' = Raised("ValueError")
            /\ UNCHANGED registry_vars
       ELSE IF adapter_class \notin AdapterClasses
       THEN /\ ret' = Raised("TypeError")
            /\ UNCHANGED registry_vars
       ELSE /\ _adapters' = [_adapters EXCEPT ![name] = Some(adapter_class)]
            /\ _metadata' = [_metadata EXCEPT ![name] =
                                Some([ name        |-> name,
                                       class_name  |-> adapter_class,
                                       description |-> description ])]
            /\ ret' = ReturnedNone
    /\ UNCHANGED executor_vars

\* AdapterRegistry.get_adapter(name, config)
get_adapter(name) ==
    /\ args' = Some([op |-> "get_adapter", name |-> name])
    /\ ret' = IF ~InDict(_adapters, name)
              THEN Raised("ValueError")
              ELSE ReturnedValue([instance_of |-> _adapters[name][1]])
    /\ UNCHANGED << executor_vars, registry_vars >>

\* AdapterRegistry.get_adapter_info(name)
get_adapter_info(name) ==
    /\ args' = Some([op |-> "get_adapter_info", name |-> name])
    /\ ret' = IF ~InDict(_metadata, name)
              THEN Raised("ValueError")
              ELSE ReturnedValue(_metadata[name][1])
    /\ UNCHANGED << executor_vars, registry_vars >>

\* An unregister that deletes the class and leaves the metadata behind
unregister_KeepMetadata(name) ==
    /\ args' = Some([op |-> "unregister", name |-> name])
    /\ IF ~InDict(_adapters, name)
       THEN /\ ret' = Raised("ValueError")
            /\ UNCHANGED registry_vars
       ELSE /\ _adapters' = [_adapters EXCEPT ![name] = None]
            /\ UNCHANGED _metadata
            /\ ret' = ReturnedNone
    /\ UNCHANGED executor_vars

\* AdapterRegistry.unregister(name)
unregister(name) ==
    /\ args' = Some([op |-> "unregister", name |-> name])
    /\ IF ~InDict(_adapters, name)
       THEN /\ ret' = Raised("ValueError")
            /\ UNCHANGED registry_vars
       ELSE /\ _adapters' = [_adapters EXCEPT ![name] = None]
            /\ _metadata' = [_metadata EXCEPT ![name] = None]
            /\ ret' = ReturnedNone
    /\ UNCHANGED executor_vars

\* The keys of a dict
Keys(dict) == { name \in AdapterNames : InDict(dict, name) }

\* The lists that hold each element of a set once
ListsOf(S) == { l \in [1..Cardinality(S) -> S] : \A n \in S : \E k \in DOMAIN l : l[k] = n }

\* AdapterRegistry.list_adapters(): list(cls._adapters.keys()), the keys in the
\* dict's insertion order. The dicts of the model keep no order: the list is
\* the keys in any order.
list_adapters ==
    /\ args' = Some([op |-> "list_adapters", name |-> ""])
    /\ \E l \in ListsOf(Keys(_adapters)) : ret' = ReturnedValue(l)
    /\ UNCHANGED << executor_vars, registry_vars >>

\* AdapterRegistry.is_registered(name)
is_registered(name) ==
    /\ args' = Some([op |-> "is_registered", name |-> name])
    /\ ret' = ReturnedValue(InDict(_adapters, name))
    /\ UNCHANGED << executor_vars, registry_vars >>

\* AdapterRegistry.clear()
clear ==
    /\ args' = Some([op |-> "clear", name |-> ""])
    /\ _adapters' = [name \in AdapterNames |-> None]
    /\ _metadata' = [name \in AdapterNames |-> None]
    /\ ret' = ReturnedNone
    /\ UNCHANGED executor_vars

RegisterSome ==
    \E name \in AdapterNames, adapter_class \in AdapterClasses \cup OtherClasses,
       description \in Descriptions, supports_tools \in BOOLEAN :
        register(name, adapter_class, description, supports_tools)

RegisterAdapterSome ==
    \E name \in AdapterNames, adapter_class \in AdapterClasses \cup OtherClasses,
       description \in Descriptions :
        register_adapter(name, adapter_class, description)

GetAdapterSome == \E name \in AdapterNames : get_adapter(name)
GetAdapterInfoSome == \E name \in AdapterNames : get_adapter_info(name)
UnregisterSome == \E name \in AdapterNames : unregister(name)
IsRegisteredSome == \E name \in AdapterNames : is_registered(name)

NextRegistry ==
    \/ RegisterSome
    \/ RegisterAdapterSome
    \/ GetAdapterSome
    \/ GetAdapterInfoSome
    \/ UnregisterSome
    \/ clear
    \/ list_adapters
    \/ IsRegisteredSome

SpecRegistry == InitRegistry /\ [][NextRegistry]_vars

\* The call a step makes and what it does
CallIs(ops) == args'[1].op \in ops
CallRaisesValueError == ret'[1].raised = "ValueError"
Registered(name) == _adapters[name] # None

\* A step that registers a registered name, or gets, describes or unregisters
\* a name that is not registered, raises ValueError and leaves both dicts as
\* they were; any other register, get or unregister call does not raise it
RegistryRejects ==
    /\ CallIs({"register", "register_adapter"}) =>
          IF Registered(args'[1].name)
          THEN CallRaisesValueError /\ UNCHANGED registry_vars
          ELSE ~CallRaisesValueError
    /\ CallIs({"get_adapter", "get_adapter_info", "unregister"}) =>
          IF ~Registered(args'[1].name)
          THEN CallRaisesValueError /\ UNCHANGED registry_vars
          ELSE ~CallRaisesValueError

\* Both dicts have the same keys, and the metadata is that of the class
DictsAgree ==
    \A name \in AdapterNames :
        /\ (_adapters[name] = None) <=> (_metadata[name] = None)
        /\ _adapters[name] # None =>
              /\ _metadata[name][1].name = name
              /\ _metadata[name][1].class_name = _adapters[name][1]

\* C19: registering a name that is already registered raises ValueError and
\* leaves the registered classes and the metadata unchanged; get_adapter,
\* get_adapter_info and unregister for a name that is not registered raise
\* ValueError without changing the registry; this holds after any sequence of
\* register, unregister and clear operations.
C19_RegistryRejects == []DictsAgree /\ [][RegistryRejects]_vars

\* A second registration under "anthropic" has just been refused, the first
\* one being in place
C19_Witness ==
    /\ args = Some([op |-> "register", name |-> "anthropic"])
    /\ ret = Raised("ValueError")
    /\ _adapters["anthropic"] = Some("AnthropicAdapter")
    /\ _adapters["openai"] = None

\* C20: SequentialExecutor.execute_benchmark runs the tasks strictly in list
\* order with at most one task in flight: a task is started only when every
\* task before it has produced its result, and results (and the task_results
\* returned) are in task-list order.
C20_SequentialOrder ==
    mode = "sequential" =>
        /\ Cardinality(Running) <= 1
        /\ \A i \in 1..N :
              pc[i] # "idle" =>
                  \A j \in 1..(i - 1) : pc[j] = "done" /\ Len(results) >= j
        /\ \A i \in Running : Len(results) = i - 1
        /\ Len(results) <= N
        /\ \A k \in 1..Len(results) : results[k].task_id = tasks[k].task_id
        /\ Returned => BR.task_results = results

\* The third task of a sequential run is in flight, the first two having
\* produced their results
C20_Witness ==
    /\ mode = "sequential"
    /\ N = 3
    /\ Running = {3}
    /\ Len(results) = 2
    /\ results[1].status = "timeout"

\* The chunk of execute_benchmark_batched task i belongs to
ChunkOf(i) == (i - 1) \div batch_size

\* Chunks one after another, in-flight tasks bounded, nothing returned early
ChunksInTurn ==
    mode = "batched" =>
        /\ \A i, j \in 1..N :
              (ChunkOf(j) < ChunkOf(i) /\ pc[i] # "idle") =>
                  (pc[j] = "done" /\ gathered[j] # None)
        /\ Cardinality(Running) <= Min(batch_size, max_concurrency)
        /\ Cardinality({ i \in 1..N : pc[i] \in {"created", "waiting", "running"} })
              <= batch_size
        /\ benchmark_result # None <=> Returned
        /\ Returned =>
              /\ \A i \in 1..N : pc[i] = "done"
              /\ Len(results) = N
              /\ BR = _aggregate_results(results)

\* The aggregate is built in one step, after the last chunk, and stays
AggregatedOnce ==
    mode = "batched" =>
        /\ benchmark_result # None => benchmark_result' = benchmark_result
        /\ benchmark_result' # benchmark_result =>
              /\ lo > N
              /\ Len(results) = N
              /\ results' = results

\* C21: in execute_benchmark_batched no task of chunk k+1 is started before
\* every task of chunk k has a result, the number of tasks in flight never
\* exceeds min(batch_size, max_concurrency), and the returned aggregate is
\* built once, over the concatenated results, after the last chunk.
C21_ChunksSequential == []ChunksInTurn /\ [][AggregatedOnce]_vars

\* A task of the second chunk is in its adapter call, the two tasks of the
\* first chunk having gone through the single slot and got their results
C21_Witness ==
    /\ mode = "batched"
    /\ N = 3 /\ batch_size = 2 /\ max_concurrency = 1
    /\ pc[1] = "done" /\ pc[2] = "done" /\ pc[3] = "running"
    /\ Len(results) = 2

\* C22: validate_success returns True for a task that declares no criteria,
\* and False, whatever the output and the tools called, for a task whose
\* declared criteria are all of unsupported types (nothing is accumulated for
\* the all() check).
C22_NoCriteriaVersusNoneEvaluated ==
    ret # None =>
        /\ args.success_criteria = <<>> => ret[1] = TRUE
        /\ ( /\ args.success_criteria # <<>>
             /\ \A k \in 1..Len(args.success_criteria) :
                   args.success_criteria[k].type \notin SupportedTypes )
              => ret[1] = FALSE

\* A task with two required criteria of an unsupported type was validated
\* against an output that contains the expected text, and found unsuccessful
C22_Witness ==
    /\ ret = Some(FALSE)
    /\ Len(args.success_criteria) = 2
    /\ \A k \in 1..2 :
          /\ args.success_criteria[k].type = "output_matches"
          /\ args.success_criteria[k].required
          /\ Contains(args.result.output, args.success_criteria[k].value)

\* ---------------------------------------------------------------- shared adapter
\* Every executor variable but the adapter's counters
run_vars == << tasks, mode, stop_on_failure, max_concurrency, batch_size, phase,
              semaphore, pc, gathered, escaped, lo, hi, stopped, results,
              benchmark_result, self_traces, self_results >>

\* The usage one API response reports: execute builds
\* TokenUsage(input_tokens, output_tokens, total_tokens), cache fields unset
CallUsages ==
    { [ input_tokens |-> 1, output_tokens |-> 1, total_tokens |-> 2,
        cache_read_tokens |-> None, cache_write_tokens |-> None ],
      [ input_tokens |-> 2, output_tokens |-> 1, total_tokens |-> 3,
        cache_read_tokens |-> None, cache_write_tokens |-> None ] }

\* Concurrent calls of execute on one adapter: args holds what the API will
\* report for each, ret how far each call is and the order in which the
\* calls returned
InitAdapter ==
    /\ NoRun
    /\ args \in UNION { [1..n -> [usage : CallUsages, cost : ResultCosts]] :
                          n \in 0..MaxTasks }
    /\ ret = Some([at |-> [i \in 1..Len(args) |-> "created"], returned |-> <<>>])

Calls == 1..Len(args)
At(i) == ret[1].at[i]
Move(i, to) == [ret[1] EXCEPT !.at[i] = to]

\* execute up to "await self.client.messages.create(...)"
ExecuteAwait(i) ==
    /\ At(i) = "created"
    /\ ret' = Some(Move(i, "awaiting"))
    /\ UNCHANGED << executor_vars, registry_vars, args >>

\* An execute that stores the latest call's figures instead of adding them
ExecuteReturn_Overwrite(i) ==
    /\ At(i) = "awaiting"
    /\ adapter' = [ _token_usage |-> args[i].usage, _total_cost |-> args[i].cost ]
    /\ ret' = Some([Move(i, "returned") EXCEPT !.returned = Append(@, i)])
    /\ UNCHANGED << run_vars, registry_vars, args >>

\* execute after the await: _update_usage, _update_cost, return; there is no
\* await in between, so no other coroutine runs between the two updates
ExecuteReturn(i) ==
    /\ At(i) = "awaiting"
    /\ adapter' = [ _token_usage |-> TokenUsageAdd(adapter._token_usage, args[i].usage),
                    _total_cost  |-> FloatAdd(adapter._total_cost, args[i].cost) ]
    /\ ret' = Some([Move(i, "returned") EXCEPT !.returned = Append(@, i)])
    /\ UNCHANGED << run_vars, registry_vars, args >>

\* The awaited API call raises: execute is left before any update
ExecuteRaise(i) ==
    /\ At(i) = "awaiting"
    /\ ret' = Some(Move(i, "raised"))
    /\ UNCHANGED << executor_vars, registry_vars, args >>

ExecuteAwaitSome == \E i \in Calls : ExecuteAwait(i)
ExecuteReturnSome == \E i \in Calls : ExecuteReturn(i)
ExecuteRaiseSome == \E i \in Calls : ExecuteRaise(i)

NextAdapter ==
    \/ ExecuteAwaitSome
    \/ ExecuteReturnSome
    \/ ExecuteRaiseSome

SpecAdapter == InitAdapter /\ [][NextAdapter]_vars

\* The calls that returned, and their costs in the order of the call list
ReturnedCalls == { i \in Calls : At(i) = "returned" }
CostsInListOrder == SelectSeq([i \in Calls |-> IF i \in ReturnedCalls
                                                 THEN [cost |-> Some(args[i].cost)]
                                                 ELSE [cost |-> None]],
                              LAMBDA r : r.cost # None)
CostsAsReturned == [k \in 1..Len(ret[1].returned) |->
                       [cost |-> Some(args[ret[1].returned[k]].cost)]]

\* No update of the usage counters is lost: they are the sums over the calls
\* that returned
UsageCounted ==
    LET R == ReturnedCalls
        t == adapter._token_usage
    IN /\ t.input_tokens = SumOver([i \in R |-> args[i].usage.input_tokens], R)
       /\ t.output_tokens = SumOver([i \in R |-> args[i].usage.output_tokens], R)
       /\ t.total_tokens = SumOver([i \in R |-> args[i].usage.total_tokens], R)
       /\ t.cache_read_tokens = (IF R = {} THEN None ELSE Some(0))
       /\ t.cache_write_tokens = (IF R = {} THEN None ELSE Some(0))

\* C23 (as stated): after any interleaving the adapter's cumulative usage and
\* cost equal the sum of the usage and cost of every call that returned,
\* whatever the order in which the calls completed: the cost is what adding
\* the costs in the order of the call list gives. (Violated: the cost is a
\* float accumulated in completion order, and rounding makes it depend on
\* that order.)
C23_CountersOrderFree ==
    /\ UsageCounted
    /\ adapter._total_cost = SumCost(CostsInListOrder)

\* C23 (amended): no update is lost. The cumulative usage equals the
\* field-wise sum of the usage of every call that returned, whatever the
\* order of completion; the cumulative cost is the float sum of the costs of
\* the calls that returned, added in the order in which they returned, and
\* equals their exact sum whenever no addition rounds.
C23_NoLostUpdate ==
    /\ UsageCounted
    /\ adapter._total_cost = SumCost(CostsAsReturned)
    /\ LET R == ReturnedCalls
           exact == SumOver([i \in R |-> args[i].cost], R)
       IN exact <= Pow2(MantissaBits) => adapter._total_cost = exact

\* Three calls were in flight together; the last one submitted returned
\* first, the first one raised, the second returned last
C23_Witness ==
    /\ Len(args) = 3
    /\ ret[1].returned = << 3, 2 >>
    /\ At(1) = "raised"
    /\ args[2].usage # args[3].usage
    /\ adapter._token_usage.total_tokens = 5

\* ---------------------------------------------------------------- initial messages
\* Python values found in a context dict: a str, or None
Str(text) == [type |-> "str", value |-> text]
PyNone == [type |-> "NoneType", value |-> ""]

\* task.task.context: None, or a dict given by the value of each key (None
\* for a key the dict does not have)
ContextKeys == {"system_message", "domain"}
Contexts ==
    {None} \cup
    { Some([k \in ContextKeys |-> IF k = "system_message" THEN sm ELSE dm]) :
        sm \in {None, Some(PyNone), Some(Str("")), Some(Str("You are a calculator"))},
        dm \in {None, Some(Str("math"))} }

\* TaskDefinition (instructions, context, tools, tool_definitions)
TaskDefinitions ==
    [ instructions     : {"", "What is 2+2?", "Use calculator"},
      context          : Contexts,
      tools            : {None, Some(<< "search" >>)},
      tool_definitions : {None, Some(<< [name |-> "calculator", description |-> None,
                                         parameters |-> None] >>)} ]

\* AgentMessage(role, content): content must be a str
AgentMessage(role, content) == [role |-> role, content |-> content.value]
IsValidContent(content) == content.type = "str"

\* "task.task.context and 'system_message' in task.task.context"
DeclaresSystemMessage(task) ==
    /\ task.context # None
    /\ \E k \in ContextKeys : task.context[1][k] # None
    /\ task.context[1]["system_message"] # None

\* A message list with the user message put first
_create_initial_messages_UserFirst(task) ==
    << AgentMessage("user", Str(task.instructions)) >> \o
    (IF DeclaresSystemMessage(task)
     THEN << AgentMessage("system", task.context[1]["system_message"][1]) >>
     ELSE << >>)

\* BaseExecutor._create_initial_messages, when no AgentMessage is refused
_create_initial_messages(task) ==
    (IF DeclaresSystemMessage(task)
     THEN << AgentMessage("system", task.context[1]["system_message"][1]) >>
     ELSE << >>)
    \o << AgentMessage("user", Str(task.instructions)) >>

\* Does _create_initial_messages raise pydantic's ValidationError?
MessagesRefused(task) ==
    DeclaresSystemMessage(task) /\ ~IsValidContent(task.context[1]["system_message"][1])

\* "tool.description or ''", "tool.parameters or {}"
OrEmpty(x) == IF x = None THEN "" ELSE x[1]

\* _execute_task_internal: the tools handed to adapter.execute
ResolveTools(task) ==
    IF task.tool_definitions # None /\ task.tool_definitions[1] # <<>>
    THEN Some([k \in 1..Len(task.tool_definitions[1]) |->
                 [ name        |-> task.tool_definitions[1][k].name,
                   description |-> OrEmpty(task.tool_definitions[1][k].description),
                   parameters  |-> OrEmpty(task.tool_definitions[1][k].parameters) ]])
    ELSE IF task.tools # None /\ task.tools[1] # <<>>
    THEN Some([k \in 1..Len(task.tools[1]) |->
                 [ name |-> task.tools[1][k], description |-> "", parameters |-> "" ]])
    ELSE None

\* The replies an adapter gives
Replies == {"4", ""}

InitMessages ==
    /\ NoRun
    /\ args \in TaskDefinitions
    /\ ret = None

\* _execute_task_internal up to the adapter call: messages and tools
PrepareCall ==
    /\ ret = None
    /\ ret' = IF MessagesRefused(args)
              THEN Some([ raised |-> "ValidationError", messages |-> <<>>,
                          tools |-> None, turn |-> None ])
              ELSE Some([ raised |-> "", messages |-> _create_initial_messages(args),
                          tools |-> ResolveTools(args), turn |-> None ])
    /\ UNCHANGED << executor_vars, registry_vars, args >>

\* _execute_task_internal after adapter.execute has returned: the turn record
RecordTurn ==
    /\ ret # None
    /\ ret[1].raised = "" /\ ret[1].turn = None
    /\ \E content \in Replies :
         ret' = Some([ret[1] EXCEPT !.turn =
                        Some([ turn_number |-> 1,
                               messages    |-> ret[1].messages \o
                                               << AgentMessage("assistant", Str(content)) >> ])])
    /\ UNCHANGED << executor_vars, registry_vars, args >>

NextMessages ==
    \/ PrepareCall
    \/ RecordTurn

SpecMessages == InitMessages /\ [][NextMessages]_vars

\* C24: the initial message list passed to the adapter holds at most one
\* system message, which is first if present and is there exactly when the
\* task's context declares a system_message, and ends with exactly one user
\* message carrying the task's instructions; the single recorded turn holds
\* these messages followed by one assistant message.
C24_MessageRoles ==
    (ret # None /\ ret[1].raised = "") =>
        LET m == ret[1].messages
            system == { k \in 1..Len(m) : m[k].role = "system" }
            user == { k \in 1..Len(m) : m[k].role = "user" }
            declared == args.context # None /\ args.context[1]["system_message"] # None
        IN /\ Cardinality(system) <= 1
           /\ system \subseteq {1}
           /\ (system # {}) <=> declared
           /\ declared => m[1].content = args.context[1]["system_message"][1].value
           /\ user = {Len(m)}
           /\ m[Len(m)].content = args.instructions
           /\ \A k \in 1..Len(m) : m[k].role \in {"system", "user"}
           /\ ret[1].turn # None =>
                 LET t == ret[1].turn[1].messages
                 IN /\ Len(t) = Len(m) + 1
                    /\ SubSeq(t, 1, Len(m)) = m
                    /\ t[Len(t)].role = "assistant"
                    /\ t[Len(t)].content \in Replies
                    /\ ret[1].turn[1].turn_number = 1

\* A task with a system message in its context has had its turn recorded:
\* system, user, assistant
C24_Witness ==
    /\ ret # None
    /\ ret[1].raised = ""
    /\ ret[1].turn # None
    /\ args.context # None
    /\ args.context[1]["system_message"] = Some(Str("You are a calculator"))
    /\ Len(ret[1].turn[1].messages) = 3

\* C25: after a run on an adapter whose counters started at zero and in
\* which every task completed, total_token_usage equals the adapter's final
\* cumulative usage and total_cost its final cumulative cost. (Violated from
\* two tasks on: each result carries the adapter's cumulative counters as
\* they were when the task ended, and aggregation adds these snapshots up.)
C25_CountedOncePerTask ==
    ( /\ Returned
      /\ Len(BR.task_results) = N
      /\ \A k \in 1..N : BR.task_results[k].status = "completed" )
    => /\ BR.total_token_usage = adapter._token_usage
       /\ BR.total_cost = adapter._total_cost

\* A task that has not got its slot yet has no result
NoResultBeforeSlot ==
    Parallel => \A i \in 1..N : pc[i] \in {"idle", "created", "waiting"} => gathered[i] = None

\* A step that gives a task a timeout result takes it from a task that holds
\* a slot, and frees that slot
TimeoutFromSlot ==
    Parallel =>
        \A i \in 1..N :
            ( /\ gathered'[i] # gathered[i]
              /\ IsExecutionResult(gathered'[i][1])
              /\ gathered'[i][1].status = "timeout" )
            => /\ pc[i] = "running"
               /\ semaphore < max_concurrency
               /\ semaphore' = semaphore + 1
               /\ gathered'[i][1].execution_time = task_timeout

\* C26: in ParallelExecutor the timeout clock of a task starts only after
\* the task has acquired its gate slot: a task waiting for a slot never
\* receives a timeout result, and every timeout result is given to a task
\* that held a slot when its deadline expired.
C26_ClockStartsAtSlot == []NoResultBeforeSlot /\ [][TimeoutFromSlot]_vars

\* A task has been timed out in its slot while another was waiting for that
\* slot all along; the one that waited has no result
C26_Witness ==
    /\ Parallel
    /\ max_concurrency = 1
    /\ N >= 2
    /\ HasStatus(1, "timeout")
    /\ pc[2] = "waiting" /\ tasks[2].kind = "hang"
    /\ gathered[2] = None

get_traces == self_traces
get_results == self_results

\* The two lists have one entry per recorded task, the k-th trace being the
\* trace of the k-th result, and every recorded result is a completed one
KeptCompleted ==
    /\ Len(get_traces) = Len(get_results)
    /\ \A k \in 1..Len(get_results) :
         /\ get_results[k].status = "completed"
         /\ get_results[k].trace = Some(get_traces[k])

\* The results of the tasks whose execution ends in this step of a run
EndedNow ==
    IF tasks' # tasks \/ benchmark_result' # benchmark_result THEN <<>>
    ELSE IF mode = "sequential"
    THEN SubSeq(results', Len(results) + 1, Len(results'))
    ELSE LET ended == { i \in 1..N : gathered[i] = None /\ gathered'[i] # None }
         IN IF ended = {} THEN <<>>
            ELSE LET i == CHOOSE j \in ended : TRUE IN << gathered'[i][1] >>

CompletedNow == SelectSeq(EndedNow, LAMBDA r : r.status = "completed")

\* A step either appends the results completed in it, one entry each, to both
\* lists, or is a clear_traces call that empties both and touches nothing else
KeptStep ==
    \/ /\ get_results' = get_results \o CompletedNow
       /\ Len(get_traces') = Len(get_traces) + Len(CompletedNow)
    \/ /\ get_results' = <<>> /\ get_traces' = <<>>
       /\ UNCHANGED << config, phase, semaphore, pc, gathered, escaped, lo, hi,
                       stopped, results, adapter, benchmark_result >>

\* C28: after any sequence of task executions, runs and clear_traces calls the
\* two lists have equal length, hold completed results only (no failed or
\* timed-out attempt), grow by one entry per task that completes, over
\* successive runs, and are emptied by clear_traces alone
C28_KeptLists == []KeptCompleted /\ [][KeptStep]_vars

\* A later run has returned with a completed, a timed-out and a failed task,
\* and the lists hold more completed results than that run produced
C28_Witness ==
    /\ Returned
    /\ Len(get_results) >
         Len(SelectSeq(BR.task_results, LAMBDA r : r.status = "completed"))
    /\ \E i, j, k \in 1..Len(BR.task_results) :
         /\ BR.task_results[i].status = "timeout"
         /\ BR.task_results[j].status = "failed"
         /\ BR.task_results[k].status = "completed"
\* ---------------------------------------------------------------- C29
\* Every ExecutionResult a run has produced so far: the loop's results, what
\* the coroutines handed to gather, the entries of the returned BenchmarkResult
Produced ==
    { results[k] : k \in 1..Len(results) }
    \cup { gathered[i][1] : i \in { j \in 1..N : gathered[j] # None } }
    \cup (IF benchmark_result = None THEN {}
          ELSE { BR.task_results[k] : k \in 1..Len(BR.task_results) })

ResultShape(r) ==
    /\ r.validation_passed = r.success
    /\ r.success => r.status = "completed"
    /\ r.status \in {"failed", "timeout"} =>
         /\ r.error # None
         /\ r.output = None /\ r.trace = None
         /\ r.token_usage = None /\ r.cost = None
         /\ r.turns_count = 0
    /\ r.status = "completed" =>
         /\ r.error = None
         /\ r.trace # None /\ r.trace[1].turns = 1
         /\ r.turns_count = 1

\* C29: every result either executor produces has validation_passed equal to
\* success, is completed if it is a success, carries an error and no output,
\* trace, usage, cost or turn if it failed or timed out, and carries no error
\* and a one-turn trace with turns_count 1 if it completed
C29_ResultShape == \A r \in Produced : IsExecutionResult(r) => ResultShape(r)

\* A parallel run has returned a completed result that did not validate, a
\* failed one and a timeout
C29_Witness ==
    /\ Returned /\ Parallel
    /\ \E i, j, k \in 1..Len(BR.task_results) :
         /\ BR.task_results[i].status = "completed" /\ ~BR.task_results[i].success
         /\ BR.task_results[j].status = "failed"
         /\ BR.task_results[k].status = "timeout"
\* ---------------------------------------------------------------- C30
\* The names with a registered class are the names with metadata
SameKeys == Keys(_adapters) = Keys(_metadata)

\* What the call of this step returned
ReturnedNow == ret'[1].value[1]

\* list_adapters returns each name with a registered class once and no other
\* name; is_registered answers whether the name is one of them; neither
\* changes the registry
ReadsAgree ==
    /\ CallIs({"list_adapters"}) =>
          /\ ret'[1].raised = ""
          /\ { ReturnedNow[k] : k \in 1..Len(ReturnedNow) } = Keys(_metadata)
          /\ Len(ReturnedNow) = Cardinality(Keys(_metadata))
          /\ UNCHANGED registry_vars
    /\ CallIs({"is_registered"}) =>
          /\ ret'[1].raised = ""
          /\ ReturnedNow = (args'[1].name \in Keys(_metadata))
          /\ UNCHANGED registry_vars

\* C30: after any sequence of registry operations, those that raise included,
\* the names with a registered class are the names with metadata,
\* list_adapters() returns exactly that set and is_registered(name) is true
\* exactly for its members
C30_RegistryViews == []SameKeys /\ [][ReadsAgree]_vars

\* After registrations and a removal, list_adapters has just returned
\* ["openai"], "anthropic" being registered no more
C30_Witness ==
    /\ args = Some([op |-> "list_adapters", name |-> ""])
    /\ ret = ReturnedValue(<< "openai" >>)
    /\ _adapters["anthropic"] = None
    /\ _metadata["openai"] # None
====
